---- MODULE Spec2Model ----
(***************************************************************************)
(* A model of the LlamaIndex RAG command tool: the document processor      *)
(* (document_processor.py), the query engine (query_engine.py), the image  *)
(* generator (image_generator.py) and the CLI / interactive dispatch       *)
(* (app.py).  The program is single-threaded and synchronous, so every     *)
(* public operation is one atomic action.  Calls into the third-party      *)
(* libraries (directory reader, vector index, retriever / synthesizer,     *)
(* OpenAI client, requests, PIL) are the environment: each such call       *)
(* either returns or raises, chosen nondeterministically through the       *)
(* record "lib" an action draws with \E.                                   *)
(***************************************************************************)
EXTENDS Integers, Sequences, FiniteSets, TLC

\* ---------------------------------------------------------------- bounds
MaxDocs == 2        \* most document files a documents directory holds
MaxN == 2           \* most images one generate_image call requests

\* ------------------------------------------------------- program constants
TOP_K == 3                          \* config.TOP_K
DOCUMENTS_DIR == "documents"        \* config.DOCUMENTS_DIR
SYSTEM_PROMPT == "sp0"              \* config.SYSTEM_PROMPT
\* index.storage_context.persist() is called with no directory: the library
\* then writes to its default persist directory, "./storage".
DEFAULT_PERSIST_DIR == "storage"

DocDirs == {"documents", "other_docs"}
IndexDirs == {"vector_store", "storage"}
Dirs == DocDirs \cup IndexDirs

\* ------------------------------------------------------------ optional values
\* Python's None for an index / a query engine / a document list is a record
\* of the same shape as the real value, so that values stay comparable.
NONE == "<None>"                                \* None where a string is expected
NoIndex == [ndocs |-> 0]
Index(n) == [ndocs |-> n]
NoDocuments == [given |-> FALSE, n |-> 0]       \* documents = None
Documents(n) == [given |-> TRUE, n |-> n]       \* a list of n documents
Call(fn, arg) == [fn |-> fn, arg |-> arg]

\* -------------------------------------------------------------- file system
\* F = [exists : SUBSET Dirs, docs : [DocDirs -> 0..MaxDocs],
\*      persisted : [IndexDirs -> index or NoIndex]]
\* os.path.exists(d)
path_exists(F, d) == d \in F.exists

\* os.listdir(d) is non-empty
listdir_nonempty(F, d) ==
    IF d \in DocDirs THEN F.docs[d] > 0 ELSE F.persisted[d] # NoIndex

\* os.makedirs(d, exist_ok=True)
makedirs(F, d) == [F EXCEPT !.exists = @ \cup {d}]

\* ------------------------------------------------------- DocumentProcessor
\* DocumentProcessor.__init__: stores the two directories, creates both.
NewProcessor(documents_dir, vector_store_dir) ==
    [documents_dir |-> documents_dir, vector_store_dir |-> vector_store_dir]

ProcessorInit(F, documents_dir, vector_store_dir) ==
    makedirs(makedirs(F, documents_dir), vector_store_dir)

\* Result of a method: outcome "returned" / "raised", the value returned,
\* the file system afterwards and the trace of calls made.
Result(outcome, ret, F, calls) ==
    [outcome |-> outcome, ret |-> ret, F |-> F, calls |-> calls]

\* Mutant of load_documents: the check for a missing or empty directory is
\* missing, so the reader is built on it and raises.
load_documents_NoGuard(proc, directory, F, lib) ==
    LET dir == IF directory = NONE THEN proc.documents_dir ELSE directory IN
    IF ~path_exists(F, dir) \/ ~listdir_nonempty(F, dir) \/ lib.fail = "read"
    THEN Result("raised", Documents(0), F,
                <<Call("SimpleDirectoryReader.load_data", dir)>>)
    ELSE Result("returned", Documents(F.docs[dir]), F,
                <<Call("SimpleDirectoryReader.load_data", dir)>>)

\* DocumentProcessor.load_documents(directory); directory NONE stands for None.
load_documents(proc, directory, F, lib) ==
    LET dir == IF directory = NONE THEN proc.documents_dir ELSE directory IN
    IF ~path_exists(F, dir) \/ ~listdir_nonempty(F, dir)
    THEN Result("returned", Documents(0), F, <<>>)
    ELSE IF lib.fail = "read"
         THEN Result("raised", Documents(0), F,
                     <<Call("SimpleDirectoryReader.load_data", dir)>>)
         ELSE Result("returned", Documents(F.docs[dir]), F,
                     <<Call("SimpleDirectoryReader.load_data", dir)>>)

\* The directory index.storage_context.persist() writes to.
PersistDir(proc) == DEFAULT_PERSIST_DIR

\* Mutant of process_documents: the check for an empty collection is missing.
process_documents_NoEmptyCheck(proc, documents, F, lib) ==
    LET ld == IF documents.given
              THEN Result("returned", documents, F, <<>>)
              ELSE LET r == load_documents(proc, NONE, F, lib)
                   IN [r EXCEPT !.calls = <<Call("load_documents", "")>> \o @]
        n == ld.ret.n
    IN  IF ld.outcome = "raised" THEN [ld EXCEPT !.ret = NoIndex]
        ELSE Result("returned", Index(n),
                    [F EXCEPT !.exists = @ \cup {PersistDir(proc)},
                              !.persisted[PersistDir(proc)] = Index(n)],
                    ld.calls \o <<Call("VectorStoreIndex.from_documents", ""),
                                  Call("persist", PersistDir(proc))>>)

\* DocumentProcessor.process_documents(documents)
process_documents(proc, documents, F, lib) ==
    LET ld == IF documents.given
              THEN Result("returned", documents, F, <<>>)
              ELSE LET r == load_documents(proc, NONE, F, lib)
                   IN [r EXCEPT !.calls = <<Call("load_documents", "")>> \o @]
        n == ld.ret.n
    IN  IF ld.outcome = "raised" THEN [ld EXCEPT !.ret = NoIndex]
        ELSE IF n = 0 THEN Result("returned", NoIndex, F, ld.calls)
        ELSE IF lib.fail = "build"
             THEN Result("raised", NoIndex, F,
                         ld.calls \o <<Call("VectorStoreIndex.from_documents", "")>>)
        ELSE IF lib.fail = "persist"
             THEN Result("raised", NoIndex, F,
                         ld.calls \o <<Call("VectorStoreIndex.from_documents", ""),
                                       Call("persist", PersistDir(proc))>>)
        ELSE Result("returned", Index(n),
                    [F EXCEPT !.exists = @ \cup {PersistDir(proc)},
                              !.persisted[PersistDir(proc)] = Index(n)],
                    ld.calls \o <<Call("VectorStoreIndex.from_documents", ""),
                                  Call("persist", PersistDir(proc))>>)

\* Mutant of load_index: only the existence of the directory is checked, so the
\* loader is called on an empty directory and raises.
load_index_ExistsOnly(proc, F, lib) ==
    IF ~path_exists(F, proc.vector_store_dir)
    THEN Result("returned", NoIndex, F, <<>>)
    ELSE IF ~listdir_nonempty(F, proc.vector_store_dir) \/ lib.fail = "load"
         THEN Result("raised", NoIndex, F,
                     <<Call("FaissVectorStore.from_persist_dir", proc.vector_store_dir)>>)
         ELSE Result("returned", F.persisted[proc.vector_store_dir], F,
                     <<Call("FaissVectorStore.from_persist_dir", proc.vector_store_dir)>>)

\* DocumentProcessor.load_index()
load_index(proc, F, lib) ==
    IF ~path_exists(F, proc.vector_store_dir)
       \/ ~listdir_nonempty(F, proc.vector_store_dir)
    THEN Result("returned", NoIndex, F, <<>>)
    ELSE IF lib.fail = "load"
         THEN Result("raised", NoIndex, F,
                     <<Call("FaissVectorStore.from_persist_dir", proc.vector_store_dir)>>)
         ELSE Result("returned", F.persisted[proc.vector_store_dir], F,
                     <<Call("FaissVectorStore.from_persist_dir", proc.vector_store_dir)>>)

\* ------------------------------------------------------------- prompt templates
\* A template is the sequence of its {variables}; <<>> stands for None.
DEFAULT_QUERY_TEMPLATE == <<"system_prompt", "context_str", "query_str">>
CustomTemplate == <<"context_str", "query_str">>
Text(v) == [kind |-> "text", val |-> v]
Placeholder(v) == [kind |-> "placeholder", val |-> v]

\* PromptTemplate.format(**kwargs): a variable that is given is replaced by its
\* text, a variable that is not given stays the literal placeholder.
Format(template, kwargs) ==
    [i \in DOMAIN template |->
        IF template[i] \in DOMAIN kwargs
        THEN Text(kwargs[template[i]])
        ELSE Placeholder(template[i])]

\* ----------------------------------------------------------------- QueryEngine
UnavailableMessage == "engine unavailable"      \* query_engine.py line 124
NoInfoMessage == "no relevant information"      \* query_engine.py line 136
NoQueryEngine == [index |-> NoIndex, text_qa_template |-> <<>>, similarity_top_k |-> 0]

\* Mutant of create_query_engine: the guard for a missing index is missing.
create_query_engine_NoGuard(self) ==
    [index |-> self.index,
     text_qa_template |-> self.query_template,
     similarity_top_k |-> TOP_K]

\* QueryEngine._create_query_engine: the value of self.query_engine afterwards.
create_query_engine(self) ==
    IF self.index = NoIndex
    THEN self.query_engine
    ELSE [index |-> self.index,
          text_qa_template |-> self.query_template,
          similarity_top_k |-> TOP_K]

\* Lines 64-65 of _load_or_create_index: the pipeline is built only for an index.
build_if_index(self) ==
    IF self.index # NoIndex
    THEN [self EXCEPT !.query_engine = create_query_engine(self)]
    ELSE self

\* Mutant of load_or_create_index: process_documents is called whether or not
\* load_index returned an index.
load_or_create_index_AlwaysCreate(self, F, lib) ==
    LET proc == self.document_processor
        r1 == load_index(proc, F, lib)
        c1 == <<Call("load_index", "")>> \o r1.calls
        r2 == process_documents(proc, NoDocuments, r1.F, lib)
        c2 == c1 \o <<Call("process_documents", "")>> \o r2.calls
    IN  IF r1.outcome = "raised"
        THEN [outcome |-> "raised", self |-> self, F |-> r1.F, calls |-> c1,
              loaded |-> NoIndex, created |-> NoIndex]
        ELSE IF r2.outcome = "raised"
        THEN [outcome |-> "raised", self |-> self, F |-> r2.F, calls |-> c2,
              loaded |-> NoIndex, created |-> NoIndex]
        ELSE [outcome |-> "returned",
              self |-> build_if_index([self EXCEPT !.index = r2.ret]),
              F |-> r2.F, calls |-> c2,
              loaded |-> r1.ret, created |-> r2.ret]

\* QueryEngine._load_or_create_index.  loaded / created record what load_index
\* and process_documents returned (NoIndex when absent or not called).
load_or_create_index(self, F, lib) ==
    LET proc == self.document_processor
        r1 == load_index(proc, F, lib)
        c1 == <<Call("load_index", "")>> \o r1.calls
    IN  IF r1.outcome = "raised"
        THEN [outcome |-> "raised", self |-> self, F |-> r1.F, calls |-> c1,
              loaded |-> NoIndex, created |-> NoIndex]
        ELSE IF r1.ret = NoIndex
        THEN LET r2 == process_documents(proc, NoDocuments, r1.F, lib)
                 c2 == c1 \o <<Call("process_documents", "")>> \o r2.calls
             IN  IF r2.outcome = "raised"
                 THEN [outcome |-> "raised", self |-> self, F |-> r2.F, calls |-> c2,
                       loaded |-> NoIndex, created |-> NoIndex]
                 ELSE [outcome |-> "returned",
                       self |-> build_if_index([self EXCEPT !.index = r2.ret]),
                       F |-> r2.F, calls |-> c2,
                       loaded |-> NoIndex, created |-> r2.ret]
        ELSE [outcome |-> "returned",
              self |-> build_if_index([self EXCEPT !.index = r1.ret]),
              F |-> r1.F, calls |-> c1,
              loaded |-> r1.ret, created |-> NoIndex]

\* QueryEngine.__init__ with the default document processor
QueryEngineInit(vector_store_dir, system_prompt, F, lib) ==
    LET self == [document_processor |-> NewProcessor(DOCUMENTS_DIR, vector_store_dir),
                 system_prompt |-> system_prompt,
                 query_template |-> DEFAULT_QUERY_TEMPLATE,
                 index |-> NoIndex,
                 query_engine |-> NoQueryEngine]
    IN  load_or_create_index(self, ProcessorInit(F, DOCUMENTS_DIR, vector_store_dir), lib)

\* QueryEngine.update_prompt; system_prompt NONE and query_template <<>> stand for None.
update_prompt(self, system_prompt, query_template) ==
    LET s1 == IF system_prompt # NONE THEN [self EXCEPT !.system_prompt = system_prompt]
              ELSE self
        s2 == IF query_template # <<>> THEN [s1 EXCEPT !.query_template = query_template]
              ELSE s1
    IN  [s2 EXCEPT !.query_engine = create_query_engine(s2)]

\* RetrieverQueryEngine.query: retrieval, then one language-model request built
\* from the text_qa_template the engine was created with.  The synthesizer
\* supplies context_str and query_str; with no retrieved node it answers
\* without a request.
RetrieverQuery(qe, query_text, lib) ==
    [source_nodes |-> lib.nodes,
     text |-> IF lib.nodes = 0 THEN "Empty Response" ELSE "answer",
     payload |-> IF lib.nodes = 0 THEN <<>>
                 ELSE Format(qe.text_qa_template,
                             [context_str |-> "context", query_str |-> query_text])]

\* Mutant of Answer: the fallback for an empty source-node set is missing.
Answer_NoFallback(response) == response.text

\* What query returns for a response of the pipeline (lines 134-138).
Answer(response) ==
    IF response.source_nodes = 0 THEN NoInfoMessage ELSE response.text

\* Mutant of query: the check for a missing pipeline is missing, so the call
\* on None raises.
query_NoGuard(self, query_text, lib) ==
    IF self.query_engine = NoQueryEngine \/ lib.query = "raise"
    THEN [outcome |-> "raised", ret |-> "", calls |-> <<Call("query_engine.query", query_text)>>,
          source_nodes |-> 0, text |-> "", payload |-> <<>>]
    ELSE LET response == RetrieverQuery(self.query_engine, query_text, lib)
         IN  [outcome |-> "returned", ret |-> Answer(response),
              calls |-> <<Call("query_engine.query", query_text)>>,
              source_nodes |-> response.source_nodes, text |-> response.text,
              payload |-> response.payload]

\* QueryEngine.query
query(self, query_text, lib) ==
    IF self.query_engine = NoQueryEngine
    THEN [outcome |-> "returned", ret |-> UnavailableMessage, calls |-> <<>>,
          source_nodes |-> 0, text |-> "", payload |-> <<>>]
    ELSE IF lib.query = "raise"
    THEN [outcome |-> "raised", ret |-> "", calls |-> <<Call("query_engine.query", query_text)>>,
          source_nodes |-> 0, text |-> "", payload |-> <<>>]
    ELSE LET response == RetrieverQuery(self.query_engine, query_text, lib)
         IN  [outcome |-> "returned", ret |-> Answer(response),
              calls |-> <<Call("query_engine.query", query_text)>>,
              source_nodes |-> response.source_nodes, text |-> response.text,
              payload |-> response.payload]

\* NO_INDEX / READY: whether self.query_engine is set.
EngineState(self) == IF self.query_engine = NoQueryEngine THEN "NO_INDEX" ELSE "READY"

\* -------------------------------------------------------------- ImageGenerator
Stages == {"download", "decode", "save"}
ImageRecord(prompt, i) == [url |-> i, local_path |-> i, prompt |-> prompt]

\* Mutant of ExceptionCaught: only the network failures are caught.
ExceptionCaught_NetworkOnly(stage) == stage \in {"api", "download"}

\* except Exception (image_generator.py line 104): every failure is caught.
ExceptionCaught(stage) == TRUE

\* Mutant of OnImageError: the images handled before the failure are returned.
OnImageError_Partial(result) == result

\* What the except clause of generate_image returns, given the partial result.
OnImageError(result) == <<>>

\* ImageGenerator.generate_image(prompt, n).  lib.api: the images.generate call
\* returns n items or raises; lib.failAt = k > 0: handling image k fails at
\* lib.stage, after k-1 images were saved; lib.failAt = 0: no failure.
generate_image(prompt, n, lib) ==
    LET apiCall == <<Call("images.generate", prompt)>>
        records(k) == [i \in 1..k |-> ImageRecord(prompt, i)]
        failed(stage, k) ==
            IF ExceptionCaught(stage)
            THEN [outcome |-> "returned", ret |-> OnImageError(records(k)),
                  calls |-> apiCall, saved |-> k, failure |-> stage]
            ELSE [outcome |-> "raised", ret |-> <<>>,
                  calls |-> apiCall, saved |-> k, failure |-> stage]
    IN  IF lib.api = "raise" THEN failed("api", 0)
        ELSE IF lib.failAt \in 1..n THEN failed(lib.stage, lib.failAt - 1)
        ELSE [outcome |-> "returned", ret |-> records(n),
              calls |-> apiCall, saved |-> n, failure |-> "none"]

\* Mutant of generate_image_with_text_analysis: a failed analysis falls back to
\* the original text.
generate_image_with_text_analysis_Fallback(text, lib) ==
    LET chatCall == <<Call("chat.completions.create", text)>>
        r == generate_image(IF lib.chat = "raise" \/ lib.content = "none"
                            THEN text ELSE lib.enhanced, 1, lib)
    IN  [r EXCEPT !.calls = chatCall \o @,
                  !.failure = IF lib.chat = "raise" THEN "chat"
                              ELSE IF lib.content = "none" THEN "content" ELSE @]

\* ImageGenerator.generate_image_with_text_analysis(text).  lib.chat: the chat
\* call returns or raises; lib.content: the message content is a string
\* (lib.enhanced) or None, on which .strip() raises.
generate_image_with_text_analysis(text, lib) ==
    LET chatCall == <<Call("chat.completions.create", text)>>
        aborted(why) == [outcome |-> "returned", ret |-> <<>>, calls |-> chatCall,
                         saved |-> 0, failure |-> why]
    IN  IF lib.chat = "raise" THEN aborted("chat")
        ELSE IF lib.content = "none" THEN aborted("content")
        ELSE LET r == generate_image(lib.enhanced, 1, lib)
             IN  IF r.outcome = "raised"
                 THEN [aborted("image") EXCEPT !.calls = chatCall \o r.calls,
                                               !.saved = r.saved]
                 ELSE [r EXCEPT !.calls = chatCall \o @]

\* app.generate_image(prompt, analyze): dispatch, then [] for an empty result
\* or an exception.
app_generate_image(prompt, analyze, lib) ==
    LET r == IF analyze THEN generate_image_with_text_analysis(prompt, lib)
             ELSE generate_image(prompt, 1, lib)
    IN  IF r.outcome = "raised" THEN [r EXCEPT !.outcome = "returned", !.ret = <<>>]
        ELSE r

\* ------------------------------------------------------------------ inputs
QueryTexts == {"q1", ""}
NewPrompts == {"sp1", "sp2"}
ImagePrompts == {"t1"}
EnhancedPrompts == {"e1"}
Outcomes == {"ok", "raise"}
Min(a, b) == IF a < b THEN a ELSE b

\* Outcomes of the library calls of the document processor: an exception ends
\* the operation, so at most one call of an operation raises; fail names it
\* (the reader, from_documents, persist, the vector-store loader).
DocLib == [fail : {"none", "read", "build", "persist", "load"}]
\* Outcomes of the retrieval / synthesis pipeline for an engine over index: it
\* raises, or returns a response with at most TOP_K source nodes.
QueryLib(index) ==
    {[query |-> "raise", nodes |-> 0]}
        \cup [query : {"ok"}, nodes : 0..Min(TOP_K, index.ndocs)]
\* Outcomes of the OpenAI / requests / PIL calls of the image generator.
ImageLib(n) == [api : Outcomes, failAt : 0..n, stage : Stages,
                chat : Outcomes, content : {"text", "none"}, enhanced : EnhancedPrompts]

\* ------------------------------------------------------------------- state
VARIABLES
    VECTOR_STORE_DIR,   \* config.VECTOR_STORE_DIR, read once from the environment
    fs,                 \* the directories on disk
    mode,               \* "cli": no interactive session; "interactive"; "crashed"
    engine,             \* the QueryEngine of interactive_mode
    last,               \* the last operation: arguments, calls made, outcome, result
    document_processor  \* a DocumentProcessor object a caller holds, or NoProcessor

vars == <<VECTOR_STORE_DIR, fs, mode, engine, last, document_processor>>

\* No DocumentProcessor has been constructed by the caller.
NoProcessor == NewProcessor(NONE, NONE)

\* The engine variable before interactive_mode has built one.
UnbuiltEngine ==
    [document_processor |-> NewProcessor(DOCUMENTS_DIR, DOCUMENTS_DIR),
     system_prompt |-> NONE, query_template |-> <<>>,
     index |-> NoIndex, query_engine |-> NoQueryEngine]

\* The record of an operation; r holds what is particular to the operation.
Op(op, arg, outcome, calls, r) ==
    [op |-> op, arg |-> arg, outcome |-> outcome, calls |-> calls, r |-> r]

\* A fresh installation: documents the user has put in place, no index yet.
Init ==
    /\ VECTOR_STORE_DIR \in IndexDirs
    /\ \E d \in [DocDirs -> 0..MaxDocs] :
          fs = [exists |-> {x \in DocDirs : d[x] > 0},
                docs |-> d,
                persisted |-> [x \in IndexDirs |-> NoIndex]]
    /\ mode = "cli"
    /\ engine = UnbuiltEngine
    /\ last = Op("none", "", "returned", <<>>, <<>>)
    /\ document_processor = NoProcessor

\* ----------------------------------------------------------------- actions
\* interactive_mode, line 202: engine = QueryEngine().  An exception of the
\* constructor is not caught and ends the process.
StartInteractive ==
    /\ mode # "interactive"
    /\ \E lib \in DocLib :
         LET r == QueryEngineInit(VECTOR_STORE_DIR, SYSTEM_PROMPT, fs, lib) IN
         /\ fs' = r.F
         /\ mode' = IF r.outcome = "raised" THEN "crashed" ELSE "interactive"
         /\ engine' = IF r.outcome = "raised" THEN UnbuiltEngine ELSE r.self
         /\ last' = Op("init", "", r.outcome, r.calls,
                        [loaded |-> r.loaded, created |-> r.created])
    /\ UNCHANGED <<VECTOR_STORE_DIR, document_processor>>

\* interactive_mode, 'reload': engine = QueryEngine()
Reload ==
    /\ mode = "interactive"
    /\ \E lib \in DocLib :
         LET r == QueryEngineInit(VECTOR_STORE_DIR, SYSTEM_PROMPT, fs, lib) IN
         /\ fs' = r.F
         /\ mode' = IF r.outcome = "raised" THEN "crashed" ELSE "interactive"
         /\ engine' = IF r.outcome = "raised" THEN UnbuiltEngine ELSE r.self
         /\ last' = Op("reload", "", r.outcome, r.calls,
                        [loaded |-> r.loaded, created |-> r.created])
    /\ UNCHANGED <<VECTOR_STORE_DIR, document_processor>>

\* interactive_mode, 'prompt': engine.update_prompt(system_prompt=new_prompt)
PromptCmd ==
    /\ mode = "interactive"
    /\ \E sp \in NewPrompts \cup {SYSTEM_PROMPT} :
         /\ engine' = update_prompt(engine, sp, <<>>)
         /\ last' = Op("update_prompt", sp, "returned", <<>>, <<>>)
    /\ UNCHANGED <<VECTOR_STORE_DIR, fs, mode, document_processor>>

\* QueryEngine.update_prompt called with any combination of its two arguments.
UpdatePrompt ==
    /\ mode = "interactive"
    /\ \E sp \in NewPrompts \cup {NONE}, t \in {<<>>, CustomTemplate, DEFAULT_QUERY_TEMPLATE} :
         /\ engine' = update_prompt(engine, sp, t)
         /\ last' = Op("update_prompt", sp, "returned", <<>>, <<>>)
    /\ UNCHANGED <<VECTOR_STORE_DIR, fs, mode, document_processor>>

\* interactive_mode, an ordinary question: response = engine.query(user_input).
\* An exception of the pipeline is not caught and ends the process.
QueryCmd ==
    /\ mode = "interactive"
    /\ \E text \in QueryTexts, lib \in QueryLib(engine.index) :
         LET r == query(engine, text, lib) IN
         /\ mode' = IF r.outcome = "raised" THEN "crashed" ELSE "interactive"
         /\ engine' = IF r.outcome = "raised" THEN UnbuiltEngine ELSE engine
         /\ last' = Op("query", text, r.outcome, r.calls,
                        [ret |-> r.ret, source_nodes |-> r.source_nodes, text |-> r.text,
                         payload |-> r.payload, state |-> EngineState(engine),
                         hadIndex |-> engine.index # NoIndex,
                         afterUpdate |-> IF last.op = "update_prompt" THEN last.arg ELSE NONE])
    /\ UNCHANGED <<VECTOR_STORE_DIR, fs, document_processor>>

\* app.index_documents(docs_dir): the 'index' command.
index_documents(docs_dir, vector_store_dir, F, lib) ==
    LET processor == NewProcessor(docs_dir, vector_store_dir)
        F1 == ProcessorInit(F, docs_dir, vector_store_dir)
        ld == load_documents(processor, NONE, F1, lib)
        c1 == <<Call("load_documents", "")>> \o ld.calls
    IN  IF ld.outcome = "raised" THEN [ld EXCEPT !.ret = NoIndex, !.calls = c1]
        ELSE IF ld.ret.n = 0 THEN Result("returned", NoIndex, F1, c1)
        ELSE LET r == process_documents(processor, ld.ret, F1, lib)
             IN  [r EXCEPT !.calls = c1 \o <<Call("process_documents", "documents")>> \o @]

IndexCmd ==
    /\ \E docs_dir \in DocDirs, lib \in DocLib :
         LET r == index_documents(docs_dir, VECTOR_STORE_DIR, fs, lib) IN
         /\ fs' = r.F
         /\ last' = Op("index", docs_dir, r.outcome, r.calls, [ret |-> r.ret])
    /\ UNCHANGED <<VECTOR_STORE_DIR, mode, engine, document_processor>>

\* DocumentProcessor().process_documents(documents), documents None or a list.
ProcessDocuments ==
    /\ \E documents \in {NoDocuments} \cup {Documents(n) : n \in 0..MaxDocs}, lib \in DocLib :
         LET processor == NewProcessor(DOCUMENTS_DIR, VECTOR_STORE_DIR)
             F1 == ProcessorInit(fs, DOCUMENTS_DIR, VECTOR_STORE_DIR)
             r == process_documents(processor, documents, F1, lib)
         IN  /\ fs' = r.F
             /\ last' = Op("process_documents", IF documents.given THEN "documents" ELSE NONE,
                            r.outcome, r.calls, [ret |-> r.ret, n |-> documents.n])
    /\ UNCHANGED <<VECTOR_STORE_DIR, mode, engine, document_processor>>

\* app.process_query(query_text, system_prompt): the 'query' command.
process_query(query_text, system_prompt, vector_store_dir, F, dlib, qlib) ==
    LET i == QueryEngineInit(vector_store_dir, SYSTEM_PROMPT, F, dlib)
        e == IF system_prompt # "" /\ system_prompt # SYSTEM_PROMPT
             THEN update_prompt(i.self, system_prompt, <<>>)
             ELSE i.self
        q == query(e, query_text, [qlib EXCEPT !.nodes = Min(@, e.index.ndocs)])
    IN  IF i.outcome = "raised"
        THEN [outcome |-> "raised", ret |-> "", calls |-> i.calls, F |-> i.F,
              state |-> "none", payload |-> <<>>, source_nodes |-> 0, prompt |-> system_prompt]
        ELSE [outcome |-> q.outcome, ret |-> q.ret, calls |-> i.calls \o q.calls, F |-> i.F,
              state |-> EngineState(e), payload |-> q.payload,
              source_nodes |-> q.source_nodes, prompt |-> e.system_prompt]

ProcessQueryCmd ==
    /\ \E text \in QueryTexts, sp \in NewPrompts \cup {SYSTEM_PROMPT},
          dlib \in DocLib, qlib \in QueryLib(Index(MaxDocs)) :
         LET r == process_query(text, sp, VECTOR_STORE_DIR, fs, dlib, qlib) IN
         /\ fs' = r.F
         /\ last' = Op("process_query", text, r.outcome, r.calls,
                        [ret |-> r.ret, source_nodes |-> r.source_nodes, payload |-> r.payload,
                         state |-> r.state, prompt |-> r.prompt])
    /\ UNCHANGED <<VECTOR_STORE_DIR, mode, engine, document_processor>>

\* ImageGenerator.generate_image(prompt, n=n)
GenerateImage ==
    /\ \E prompt \in ImagePrompts, n \in 1..MaxN :
         \E lib \in ImageLib(n) :
            LET r == generate_image(prompt, n, lib) IN
            last' = Op("generate_image", prompt, r.outcome, r.calls,
                       [ret |-> r.ret, saved |-> r.saved, failure |-> r.failure, n |-> n])
    /\ UNCHANGED <<VECTOR_STORE_DIR, fs, mode, engine, document_processor>>

\* ImageGenerator.generate_image_with_text_analysis(text)
GenerateImageWithTextAnalysis ==
    /\ \E text \in ImagePrompts, lib \in ImageLib(1) :
         LET r == generate_image_with_text_analysis(text, lib) IN
         last' = Op("generate_image_with_text_analysis", text, r.outcome, r.calls,
                    [ret |-> r.ret, saved |-> r.saved, failure |-> r.failure,
                     enhanced |-> lib.enhanced])
    /\ UNCHANGED <<VECTOR_STORE_DIR, fs, mode, engine, document_processor>>

\* app.generate_image: the 'generate_image' command and the REPL's 'image:' and
\* 'analyze_image:' sub-commands.
ImageCmd ==
    /\ \E prompt \in ImagePrompts, analyze \in BOOLEAN, lib \in ImageLib(1) :
         LET r == app_generate_image(prompt, analyze, lib) IN
         last' = Op("app_generate_image", prompt, r.outcome, r.calls,
                    [ret |-> r.ret, saved |-> r.saved, failure |-> r.failure,
                     analyze |-> analyze, enhanced |-> lib.enhanced])
    /\ UNCHANGED <<VECTOR_STORE_DIR, fs, mode, engine, document_processor>>

Next ==
    \/ StartInteractive
    \/ Reload
    \/ PromptCmd
    \/ UpdatePrompt
    \/ QueryCmd
    \/ IndexCmd
    \/ ProcessDocuments

\* The document processor and the query engine of an interactive session.
Spec == Init /\ [][Next]_vars

CliNext ==
    \/ IndexCmd
    \/ ProcessQueryCmd

\* The one-shot commands 'index' and 'query'.
CliSpec == Init /\ [][CliNext]_vars

ImageNext ==
    \/ GenerateImage
    \/ GenerateImageWithTextAnalysis
    \/ ImageCmd

\* The image generator and its commands.
ImageSpec == Init /\ [][ImageNext]_vars

\* processor = DocumentProcessor(documents_dir=d)
NewDocumentProcessor ==
    /\ \E d \in DocDirs :
         /\ document_processor' = NewProcessor(d, VECTOR_STORE_DIR)
         /\ fs' = ProcessorInit(fs, d, VECTOR_STORE_DIR)
         /\ last' = Op("new_processor", d, "returned", <<>>, <<>>)
    /\ UNCHANGED <<VECTOR_STORE_DIR, mode, engine>>

\* processor.load_documents(directory), directory None or a path
LoadDocuments ==
    /\ document_processor # NoProcessor
    /\ \E directory \in DocDirs \cup {NONE}, lib \in [fail : {"none", "read"}] :
         LET r == load_documents(document_processor, directory, fs, lib) IN
         /\ fs' = r.F
         /\ last' = Op("load_documents", directory, r.outcome, r.calls, [ret |-> r.ret])
    /\ UNCHANGED <<VECTOR_STORE_DIR, mode, engine, document_processor>>

\* processor.load_index()
LoadIndex ==
    /\ document_processor # NoProcessor
    /\ \E lib \in [fail : {"none", "load"}] :
         LET r == load_index(document_processor, fs, lib) IN
         /\ fs' = r.F
         /\ last' = Op("load_index", "", r.outcome, r.calls, [ret |-> r.ret])
    /\ UNCHANGED <<VECTOR_STORE_DIR, mode, engine, document_processor>>

\* processor.process_documents(documents), documents None or a list
ProcessorProcessDocuments ==
    /\ document_processor # NoProcessor
    /\ \E documents \in {NoDocuments} \cup {Documents(n) : n \in 0..MaxDocs}, lib \in DocLib :
         LET r == process_documents(document_processor, documents, fs, lib) IN
         /\ fs' = r.F
         /\ last' = Op("process_documents", IF documents.given THEN "documents" ELSE NONE,
                        r.outcome, r.calls, [ret |-> r.ret, n |-> documents.n])
    /\ UNCHANGED <<VECTOR_STORE_DIR, mode, engine, document_processor>>

\* The user removes a directory between two operations: the case the
\* os.path.exists tests of load_documents and load_index provide for.
RemoveDirectory ==
    /\ \E d \in fs.exists :
         /\ fs' = [exists |-> fs.exists \ {d},
                   docs |-> [x \in DocDirs |-> IF x = d THEN 0 ELSE fs.docs[x]],
                   persisted |-> [x \in IndexDirs |->
                                     IF x = d THEN NoIndex ELSE fs.persisted[x]]]
         /\ last' = Op("rmdir", d, "returned", <<>>, <<>>)
    /\ UNCHANGED <<VECTOR_STORE_DIR, mode, engine, document_processor>>

ProcessorNext ==
    \/ NewDocumentProcessor
    \/ LoadDocuments
    \/ LoadIndex
    \/ ProcessorProcessDocuments
    \/ RemoveDirectory

\* A DocumentProcessor used directly through its public methods.
ProcessorSpec == Init /\ [][ProcessorNext]_vars

TypeOK ==
    /\ VECTOR_STORE_DIR \in IndexDirs
    /\ mode \in {"cli", "interactive", "crashed"}
    /\ fs.exists \subseteq Dirs
    /\ \A d \in DocDirs : fs.docs[d] \in 0..MaxDocs
    /\ \A d \in IndexDirs : fs.persisted[d].ndocs \in 0..MaxDocs

\* ------------------------------------------------------------------ claims
Range(f) == {f[i] : i \in DOMAIN f}
Fns(calls) == {calls[i].fn : i \in DOMAIN calls}
Count(calls, fn) == Cardinality({i \in DOMAIN calls : calls[i].fn = fn})

\* C1: a query on an engine that holds no index returns the fixed
\* unavailability message, for any text and after any earlier query or
\* update_prompt, without raising and without a call into the pipeline.
C1_NoIndexUnavailable ==
    (last.op = "query" /\ ~last.r.hadIndex) =>
        /\ last.outcome = "returned"
        /\ last.r.ret = UnavailableMessage
        /\ last.calls = <<>>
        /\ last.r.payload = <<>>

\* C1 witness: the empty query, right after update_prompt, on an engine without index.
C1_Witness ==
    /\ last.op = "query" /\ ~last.r.hadIndex /\ last.arg = ""
    /\ last.r.afterUpdate \in NewPrompts
    /\ last.r.ret = UnavailableMessage

\* C2: a query that follows update_prompt(new system prompt) on a READY engine
\* sends a request that contains the new system prompt and no other one.
C2_NewPromptInRequest ==
    (/\ last.op = "query" /\ last.r.state = "READY" /\ last.outcome = "returned"
     /\ last.r.afterUpdate \in NewPrompts /\ last.r.payload # <<>>) =>
        /\ Text(last.r.afterUpdate) \in Range(last.r.payload)
        /\ \A p \in (NewPrompts \cup {SYSTEM_PROMPT}) \ {last.r.afterUpdate} :
              Text(p) \notin Range(last.r.payload)

\* C3: initialization calls load_index first, calls process_documents only
\* when load_index returned absent, ends READY exactly when one of the two
\* returned an index, and ends NO_INDEX without raising when both returned absent.
C3_LoadThenCreate ==
    (last.op \in {"init", "reload"}) =>
        /\ last.calls[1] = Call("load_index", "")
        /\ Count(last.calls, "load_index") = 1
        /\ Count(last.calls, "process_documents") <= 1
        /\ "process_documents" \in Fns(last.calls) => last.r.loaded = NoIndex
        /\ last.r.loaded # NoIndex => engine.index = last.r.loaded
        /\ last.outcome = "returned" =>
              /\ mode = "interactive"
              /\ (EngineState(engine) = "READY")
                    <=> (last.r.loaded # NoIndex \/ last.r.created # NoIndex)
              /\ (last.r.loaded = NoIndex /\ last.r.created = NoIndex)
                    => (EngineState(engine) = "NO_INDEX"
                        /\ "process_documents" \in Fns(last.calls))
        /\ (fs.persisted[VECTOR_STORE_DIR] = NoIndex /\ fs.docs[DOCUMENTS_DIR] = 0)
              => (last.outcome = "returned" /\ EngineState(engine) = "NO_INDEX")

\* C3 witness: load_index returned absent, process_documents built the index.
C3_Witness ==
    /\ last.op = "init" /\ last.outcome = "returned"
    /\ last.r.loaded = NoIndex /\ last.r.created # NoIndex
    /\ "process_documents" \in Fns(last.calls)
    /\ EngineState(engine) = "READY"

\* C4: only initialization or reload takes the engine from NO_INDEX to READY;
\* update_prompt keeps the state and the index, a query keeps the engine.
C4_StateFrame ==
    [][ /\ (EngineState(engine) = "NO_INDEX" /\ EngineState(engine') = "READY")
            => last'.op \in {"init", "reload"}
        /\ (last'.op = "update_prompt")
            => /\ EngineState(engine') = EngineState(engine)
               /\ engine'.index = engine.index
               /\ engine'.query_engine.index = engine.query_engine.index
        /\ (last'.op = "query" /\ last'.outcome = "returned") => engine' = engine
      ]_vars

\* C4 witness: update_prompt with a new prompt on a NO_INDEX engine left it NO_INDEX.
C4_Witness ==
    /\ last.op = "update_prompt" /\ last.arg \in NewPrompts
    /\ mode = "interactive"
    /\ engine.system_prompt = last.arg
    /\ EngineState(engine) = "NO_INDEX"

\* C5: in READY a query returns the fixed no-information message when the
\* response has no source node and the synthesized text otherwise.
C5_NoInfoFallback ==
    (last.op = "query" /\ last.r.state = "READY" /\ last.outcome = "returned") =>
        /\ last.r.source_nodes = 0 => last.r.ret = NoInfoMessage
        /\ last.r.source_nodes > 0 => (last.r.ret = last.r.text /\ last.r.ret # NoInfoMessage)
        /\ last.r.ret # UnavailableMessage

\* C5 witness: a READY engine answered a query whose response had no source node.
C5_Witness ==
    /\ last.op = "query" /\ last.r.state = "READY" /\ last.outcome = "returned"
    /\ last.r.source_nodes = 0
    /\ last.r.ret = NoInfoMessage

\* C6: generate_image asked for n images returns a list of length 0 or n.
C6_AllOrNothing ==
    (last.op = "generate_image" /\ last.outcome = "returned") =>
        Len(last.r.ret) \in {0, last.r.n}

\* C6 witness: of two images the first was saved, the second failed, and the
\* returned list is empty.
C6_Witness ==
    /\ last.op = "generate_image" /\ last.r.n = 2
    /\ last.r.saved = 1 /\ last.r.failure \in Stages
    /\ last.r.ret = <<>>

\* C7: generate_image_with_text_analysis makes exactly one chat call, first;
\* an image-API call is made at most once, only after the chat call succeeded,
\* and with the enhanced prompt; once the enhanced prompt is extracted it is
\* made exactly once; a failed chat call gives an empty list and no image call.
C7_AnalysisThenImage ==
    (\/ last.op = "generate_image_with_text_analysis"
     \/ (last.op = "app_generate_image" /\ last.r.analyze)) =>
        /\ last.outcome = "returned"
        /\ Count(last.calls, "chat.completions.create") = 1
        /\ last.calls[1] = Call("chat.completions.create", last.arg)
        /\ Count(last.calls, "images.generate") <= 1
        /\ \A i \in DOMAIN last.calls :
              last.calls[i].fn = "images.generate"
                 => (i = 2 /\ last.calls[i].arg = last.r.enhanced
                     /\ last.calls[i].arg # last.arg
                     /\ last.r.failure \notin {"chat", "content"})
        /\ last.r.failure \in {"chat", "content"}
              => (last.r.ret = <<>> /\ Count(last.calls, "images.generate") = 0)
        /\ last.r.failure \notin {"chat", "content"}
              => Count(last.calls, "images.generate") = 1

\* C7 witness: the chat call failed; the result is empty and no image call was made.
C7_Witness ==
    /\ last.op = "generate_image_with_text_analysis"
    /\ last.r.failure = "chat"
    /\ last.r.ret = <<>>
    /\ last.calls = <<Call("chat.completions.create", last.arg)>>

\* C8: every failure inside generate_image (API, download, decode, save; on any
\* image) is caught: the call returns, and returns the empty list, however
\* many images were saved before.
C8_FailureGivesEmpty ==
    (last.op = "generate_image") =>
        /\ last.outcome = "returned"
        /\ last.r.failure # "none" => last.r.ret = <<>>
        /\ last.r.failure = "none" => Len(last.r.ret) = last.r.saved

\* C8 witness: saving the second image failed after the first was saved.
C8_Witness ==
    /\ last.op = "generate_image" /\ last.outcome = "returned"
    /\ last.r.failure = "save" /\ last.r.saved >= 1
    /\ last.r.ret = <<>>

\* C9: process_documents without documents first loads from the default
\* directory; for an empty collection it returns absent, without raising and
\* without touching a persisted index; it builds and persists only for a
\* non-empty collection.
C9_EmptyFailsSoft ==
    [][ (last'.op = "process_documents") =>
          LET empty == IF last'.arg = NONE THEN fs.docs[DOCUMENTS_DIR] = 0
                       ELSE last'.r.n = 0
          IN  /\ last'.arg = NONE =>
                    /\ last'.calls # <<>>
                    /\ last'.calls[1] = Call("load_documents", "")
                    /\ \A i \in DOMAIN last'.calls :
                          last'.calls[i].fn = "SimpleDirectoryReader.load_data"
                             => last'.calls[i].arg = DOCUMENTS_DIR
              /\ last'.arg # NONE => "load_documents" \notin Fns(last'.calls)
              /\ empty =>
                    /\ last'.outcome = "returned"
                    /\ last'.r.ret = NoIndex
                    /\ fs'.persisted = fs.persisted
                    /\ Fns(last'.calls) \cap {"VectorStoreIndex.from_documents", "persist"} = {}
              /\ (fs'.persisted # fs.persisted
                    \/ Fns(last'.calls) \cap {"VectorStoreIndex.from_documents", "persist"} # {})
                    => ~empty
              /\ (last'.outcome = "returned" /\ ~empty)
                    => (last'.r.ret # NoIndex /\ "persist" \in Fns(last'.calls))
      ]_vars

\* C9 witness: process_documents() found the default directory empty and
\* returned absent after only calling load_documents.
C9_Witness ==
    /\ last.op = "process_documents" /\ last.arg = NONE
    /\ last.outcome = "returned" /\ last.r.ret = NoIndex
    /\ last.calls = <<Call("load_documents", "")>>
    /\ fs.docs[DOCUMENTS_DIR] = 0

\* C10: after a successful process_documents, load_index on a processor with
\* the same vector-store directory finds the directory non-empty and returns
\* the index.
C10_PersistedIndexLoads ==
    (last.op = "process_documents" /\ last.outcome = "returned" /\ last.r.ret # NoIndex) =>
        /\ listdir_nonempty(fs, VECTOR_STORE_DIR)
        /\ load_index(NewProcessor(DOCUMENTS_DIR, VECTOR_STORE_DIR), fs,
                      [fail |-> "none"]).ret = last.r.ret

\* The directory a load_documents call named by last reads.
LoadedDir == IF last.arg = NONE THEN document_processor.documents_dir ELSE last.arg

\* C11: load_documents on a nonexistent or empty directory returns the empty
\* collection without raising and without invoking the directory reader; on a
\* non-empty directory it invokes the reader on that directory and returns
\* the documents the reader read.
C11_LoadDocumentsFailsSoft ==
    (last.op = "load_documents") =>
        IF LoadedDir \notin fs.exists \/ fs.docs[LoadedDir] = 0
        THEN /\ last.outcome = "returned"
             /\ last.r.ret = Documents(0)
             /\ last.calls = <<>>
        ELSE /\ last.calls = <<Call("SimpleDirectoryReader.load_data", LoadedDir)>>
             /\ last.outcome = "returned" => last.r.ret = Documents(fs.docs[LoadedDir])

\* C11 witness: load_documents on a directory that does not exist returned
\* the empty collection.
C11_Witness ==
    /\ last.op = "load_documents"
    /\ LoadedDir \notin fs.exists
    /\ last.outcome = "returned"
    /\ last.r.ret = Documents(0)

\* C12: load_index on a nonexistent or empty vector-store directory returns
\* absent without raising and without invoking the vector-store loader; the
\* loader is invoked only on a directory that exists and is non-empty, and
\* what it loads is returned.
C12_LoadIndexFailsSoft ==
    (last.op = "load_index") =>
        IF document_processor.vector_store_dir \notin fs.exists
              \/ fs.persisted[document_processor.vector_store_dir] = NoIndex
        THEN /\ last.outcome = "returned"
             /\ last.r.ret = NoIndex
             /\ last.calls = <<>>
        ELSE /\ last.calls = <<Call("FaissVectorStore.from_persist_dir",
                                    document_processor.vector_store_dir)>>
             /\ last.outcome = "returned"
                   => last.r.ret = fs.persisted[document_processor.vector_store_dir]

\* C12 witness: load_index on a vector-store directory that does not exist
\* returned absent.
C12_Witness ==
    /\ last.op = "load_index"
    /\ document_processor.vector_store_dir \notin fs.exists
    /\ last.outcome = "returned"
    /\ last.r.ret = NoIndex

====
